---- MODULE Spec2Model ----
(***************************************************************************)
(* The bup KIO worker (src/kioslave/bupslave.cpp): the repository locator, *)
(* the single open-file slot and the two streaming loops (get and read).   *)
(*                                                                         *)
(* Strings are sequences of one-character tokens, so that prefix tests,    *)
(* removal and splitting are computed the way QString computes them.  The  *)
(* marker names "objects", "refs" and ".git" are single tokens.            *)
(***************************************************************************)
EXTENDS Integers, Sequences, FiniteSets, TLC

\* ------------------------------------------------------------------------
\* Bounds of the model
\* ------------------------------------------------------------------------
\* Number of Repository objects that may be allocated at one time.
MaxRepos == 2
\* Largest byte budget a ReadOpen request asks for.
MaxReadSize == 4
\* Width of int in the model.
IntBits == 4

\* ------------------------------------------------------------------------
\* QString helpers
\* ------------------------------------------------------------------------
Slash == "/"

StartsWith(s, p) == Len(p) <= Len(s) /\ SubSeq(s, 1, Len(p)) = p

RemoveFirst(s, n) == SubSeq(s, n + 1, Len(s))

RECURSIVE SplitAcc(_, _, _)
SplitAcc(s, cur, acc) ==
    IF s = <<>>
    THEN IF cur = <<>> THEN acc ELSE Append(acc, cur)
    ELSE IF Head(s) = Slash
         THEN SplitAcc(Tail(s), <<>>, IF cur = <<>> THEN acc ELSE Append(acc, cur))
         ELSE SplitAcc(Tail(s), Append(cur, Head(s)), acc)

\* QString::split('/', SkipEmptyParts)
SplitSkipEmpty(s) == SplitAcc(s, <<>>, <<>>)

\* ------------------------------------------------------------------------
\* QUrl: the text after "bup:" is split into authority and path.  host() is
\* returned in lower case; path() is returned as written.
\* ------------------------------------------------------------------------
LowerChar(c) == IF c = "B" THEN "b" ELSE c

ToLower(s) == [i \in 1..Len(s) |-> LowerChar(s[i])]

RECURSIVE FindSlash(_, _)
FindSlash(u, i) == IF i > Len(u) \/ u[i] = Slash THEN i ELSE FindSlash(u, i + 1)

UrlHasAuthority(u) == Len(u) >= 2 /\ u[1] = Slash /\ u[2] = Slash

UrlHost(u) ==
    IF UrlHasAuthority(u) THEN ToLower(SubSeq(u, 3, FindSlash(u, 3) - 1)) ELSE <<>>

UrlPath(u) ==
    IF UrlHasAuthority(u) THEN SubSeq(u, FindSlash(u, 3), Len(u)) ELSE u

RECURSIVE StripTrailingSlash(_)
StripTrailingSlash(p) ==
    IF Len(p) > 1 /\ p[Len(p)] = Slash
    THEN StripTrailingSlash(SubSeq(p, 1, Len(p) - 1))
    ELSE p

\* lines 288-296: the slash-terminated absolute path of the request
NormalizedPath(u) ==
    IF UrlHost(u) # <<>>
    THEN <<Slash>> \o UrlHost(u) \o StripTrailingSlash(UrlPath(u)) \o <<Slash>>
    ELSE LET p == StripTrailingSlash(UrlPath(u)) \o <<Slash>>
         IN  IF StartsWith(p, <<Slash>>) THEN p ELSE <<Slash>> \o p

\* ------------------------------------------------------------------------
\* The local file system seen by QFile::exists, and the archives on it
\* ------------------------------------------------------------------------
\* /a/        objects + refs                  a valid archive
\* /a/d/      .git/objects + .git/refs        a valid archive nested in /a/
\* /B/b/      .git/objects + .git/refs        a valid archive
\* /c/        objects + refs                  a corrupt archive
\* /c/a/      objects + refs                  a valid archive below the corrupt one
\* /b/        objects and .git/refs only      no archive
FsEntries ==
    { <<"/", "a", "/", "objects">>, <<"/", "a", "/", "refs">>,
      <<"/", "a", "/", "d", "/", ".git", "/", "objects">>,
      <<"/", "a", "/", "d", "/", ".git", "/", "refs">>,
      <<"/", "B", "/", "b", "/", ".git", "/", "objects">>,
      <<"/", "B", "/", "b", "/", ".git", "/", "refs">>,
      <<"/", "c", "/", "objects">>, <<"/", "c", "/", "refs">>,
      <<"/", "c", "/", "a", "/", "objects">>, <<"/", "c", "/", "a", "/", "refs">>,
      <<"/", "b", "/", "objects">>,
      <<"/", "b", "/", ".git", "/", "refs">> }

FileExists(p) == p \in FsEntries

\* Root paths whose archive opens; every other candidate is corrupt.
OpenableRoots ==
    { <<"/", "a", "/">>, <<"/", "a", "/", "d", "/">>,
      <<"/", "B", "/", "b", "/">>, <<"/", "c", "/", "a", "/">> }

\* Repository::isValid() right after construction on pRepositoryPath
OpenRepository(pRepositoryPath) == pRepositoryPath \in OpenableRoots

\* lines 316-319: the archive-marker test on a candidate directory
MarkerTestObjectsOnly(lRepoPath) ==
    \/ FileExists(lRepoPath \o <<"objects">>)
    \/ FileExists(lRepoPath \o <<".git", "/", "objects">>)

MarkerTest(lRepoPath) ==
    \/ (FileExists(lRepoPath \o <<"objects">>) /\ FileExists(lRepoPath \o <<"refs">>))
    \/ (FileExists(lRepoPath \o <<".git", "/", "objects">>)
        /\ FileExists(lRepoPath \o <<".git", "/", "refs">>))

\* lines 310-324: walk the components outward from "/"
RECURSIVE Discover(_, _)
Discover(pPathInRepository, lRepoPath) ==
    IF pPathInRepository = <<>>
    THEN [found |-> FALSE, root |-> <<>>, rest |-> <<>>]
    ELSE LET cand == lRepoPath \o Head(pPathInRepository) \o <<Slash>>
         IN  IF MarkerTest(cand)
             THEN [found |-> TRUE, root |-> cand, rest |-> Tail(pPathInRepository)]
             ELSE Discover(Tail(pPathInRepository), cand)

NoRepo == [id |-> 0, objectName |-> <<>>, valid |-> FALSE]

\* the fast path without the isValid() test
FastPathOfAnyRepository(repo, lPath) ==
    repo # NoRepo /\ StartsWith(lPath, repo.objectName)

\* lines 298-308: may the live Repository answer for lPath
FastPath(repo, lPath) ==
    repo # NoRepo /\ repo.valid /\ StartsWith(lPath, repo.objectName)

\* lines 285-325: the result of checkCorrectRepository on the held Repository
\* `repo` and the address `u`; `fresh` is the identity of a new allocation.
CheckCorrectRepository(repo, u, fresh) ==
    LET lPath == NormalizedPath(u)
    IN  IF FastPath(repo, lPath)
        THEN [ok |-> TRUE,
              path |-> SplitSkipEmpty(RemoveFirst(lPath, Len(repo.objectName))),
              repo |-> repo, deleted |-> {}, created |-> {}]
        ELSE LET valid == repo # NoRepo /\ repo.valid
                 d == Discover(SplitSkipEmpty(lPath), <<Slash>>)
             IN  IF d.found
                 THEN [ok |-> OpenRepository(d.root),
                       path |-> d.rest,
                       repo |-> [id |-> fresh, objectName |-> d.root,
                                 valid |-> OpenRepository(d.root)],
                       deleted |-> IF valid THEN {repo.id} ELSE {},
                       created |-> {fresh}]
                 ELSE [ok |-> FALSE, path |-> <<>>,
                       repo |-> IF valid THEN NoRepo ELSE repo,
                       deleted |-> IF valid THEN {repo.id} ELSE {},
                       created |-> {}]


\* ------------------------------------------------------------------------
\* The Node Tree of an archive (the Repository / Node capability).  Every
\* archive of the model holds the same small tree:
\*     f   File of 3 bytes          e   File of 0 bytes
\*     d   Directory holding g, a File of 1 byte
\*     m   empty Directory
\*     l   Symlink to f             x   Symlink to a missing name
\* A node is named by its path of names below the archive root.
\* ------------------------------------------------------------------------
NoNode == <<<<"?">>>>

Node(kind, size, target, mode, uid, gid, mtime) ==
    [kind |-> kind, size |-> size, target |-> target, mMode |-> mode,
     mUid |-> uid, mGid |-> gid, mMtime |-> mtime]

NodeTable ==
    ( <<>>                 :> Node("Directory", 0, <<>>, "d755", 0, 0, 10) ) @@
    ( <<<<"f">>>>          :> Node("File", 3, <<>>, "-644", 0, 7, 11) ) @@
    ( <<<<"e">>>>          :> Node("File", 0, <<>>, "-600", 7, 0, 12) ) @@
    ( <<<<"d">>>>          :> Node("Directory", 0, <<>>, "d700", 0, 0, 13) ) @@
    ( <<<<"d">>, <<"g">>>> :> Node("File", 1, <<>>, "-644", 0, 0, 14) ) @@
    ( <<<<"m">>>>          :> Node("Directory", 0, <<>>, "d755", 0, 0, 15) ) @@
    ( <<<<"l">>>>          :> Node("Symlink", 0, <<"f">>, "l777", 7, 7, 16) ) @@
    ( <<<<"x">>>>          :> Node("Symlink", 0, <<"n">>, "l777", 0, 0, 17) )

\* Directory::subNodes(), in iteration order
SubNodes(dir) ==
    IF dir = <<>>
    THEN << <<<<"d">>>>, <<<<"e">>>>, <<<<"f">>>>, <<<<"l">>>>, <<<<"m">>>>,
            <<<<"x">>>> >>
    ELSE IF dir = <<<<"d">>>> THEN << <<<<"d">>, <<"g">>>> >>
    ELSE <<>>

NodePaths == DOMAIN NodeTable

FileNodes == {p \in NodePaths : NodeTable[p].kind = "File"}

IsFile(node) == node \in FileNodes

FileSize(node) == NodeTable[node].size

ParentOf(node) == SubSeq(node, 1, Len(node) - 1)

\* Repository::resolve(components, followSymlink)
Resolve(components, pFollowLinks) ==
    IF components \notin NodePaths THEN NoNode
    ELSE IF NodeTable[components].kind = "Symlink" /\ pFollowLinks
         THEN LET t == ParentOf(components)
                       \o SplitSkipEmpty(NodeTable[components].target)
              IN  IF t \in NodePaths THEN t ELSE components
         ELSE components

\* ------------------------------------------------------------------------
\* File::seek and File::read of the backing store
\* ------------------------------------------------------------------------
RetOk == "0"

\* File::seek(offset): 0 and the new position, or an error code.  A seek the
\* store fails may leave the file at any position.
FileSeek(size, pos, pOffset) ==
    (IF pOffset <= size THEN {[ret |-> RetOk, pos |-> pOffset]} ELSE {})
    \cup {[ret |-> "ERR_COULD_NOT_SEEK", pos |-> q] : q \in 0..size}

MinOf(a, b) == IF a < b THEN a ELSE b

\* File::read(chunk, pReadSize): a chunk and 0, end of data, or an error
\* code.  pReadSize <= 0 asks for no bound.
FileRead(size, pos, pReadSize) ==
    IF pos >= size
    THEN {[ret |-> "ERR_NO_CONTENT", len |-> 0, pos |-> pos]}
    ELSE LET limit == IF pReadSize > 0 THEN MinOf(pReadSize, size - pos)
                      ELSE size - pos
         IN  {[ret |-> RetOk, len |-> n, pos |-> pos + n] : n \in 1..limit}
             \cup {[ret |-> "ERR_COULD_NOT_READ", len |-> 0, pos |-> pos]}

\* Integer widths, scaled down: int has IntBits bits where the program has
\* 32, and filesize_t / quint64 has twice as many where the program has 64.
SizeModulus == 2 ^ (2 * IntBits)

\* static_cast<int>(pSize) of an unsigned size
CastInt(x) ==
    LET m == x % (2 ^ IntBits)
    IN  IF m >= 2 ^ (IntBits - 1) THEN m - 2 ^ IntBits ELSE m

\* ------------------------------------------------------------------------
\* Requests: the address is (path, number of leading slashes, trailing
\* slash); with two leading slashes the first component is the authority.
\* ------------------------------------------------------------------------
RECURSIVE Join(_)
Join(P) ==
    IF P = <<>> THEN <<>>
    ELSE IF Len(P) = 1 THEN P[1]
         ELSE P[1] \o <<Slash>> \o Join(Tail(P))

Render(P, slashes, trailing) ==
    [i \in 1..slashes |-> Slash] \o Join(P)
        \o (IF trailing THEN <<Slash>> ELSE <<>>)

Paths ==
    { <<>>,
      <<<<"a">>>>, <<<<"a">>, <<"f">>>>,
      <<<<"a">>, <<"d">>>>, <<<<"a">>, <<"d">>, <<"g">>>>, <<<<"a">>, <<"n">>>>,
      <<<<"B">>, <<"b">>>>, <<<<"B">>, <<"b">>, <<"f">>>>,
      <<<<"c">>>>, <<<<"c">>, <<"a">>, <<"f">>>>,
      <<<<"b">>, <<"f">>>>, <<<<"B">>>> }

Forms == (0..3) \X BOOLEAN

Resumes ==
    {[kind |-> "empty", val |-> 0], [kind |-> "junk", val |-> 0]}
    \cup {[kind |-> "num", val |-> v] : v \in 0..4}

Offsets == 0..4

NoFile == [repo |-> 0, node |-> NoNode]

Request(op, P, form, resume, write, n) ==
    [op |-> op, P |-> P, slashes |-> form[1], trailing |-> form[2],
     resume |-> resume, write |-> write, n |-> n]

NoResume == [kind |-> "empty", val |-> 0]

NoReq == Request("none", <<>>, <<0, FALSE>>, NoResume, FALSE, 0)

VARIABLES
    mRepository,     \* the held Repository, or NoRepo
    mOpenFile,       \* the open file slot: a node of some Repository, or NoFile
    allocated,       \* identities of Repository objects allocated, not released
    filePos,         \* read position of every File node of the held Repository
    pc,              \* "idle", or the loop a handler is in
    req,             \* the request being served (or served last)
    out,             \* signals emitted for that request, in order
    loc,             \* what checkCorrectRepository returned for it
    lFile,           \* get(): the file being streamed
    lProcessedSize,  \* get(): the running processed size
    pSize,           \* read(): the remaining budget
    seekLog,         \* File::seek offsets and File::read bounds of the request
    mUsercache,      \* uid -> name, as a set of [id, name]
    mGroupcache,     \* gid -> name, as a set of [id, name]
    platform,        \* what getpwuid / getgrgid answer: id -> name or ""
    emptyTurns       \* turns of a streaming loop on an empty chunk, modulo 2

vars == <<mRepository, mOpenFile, allocated, filePos, pc, req, out, loc,
          lFile, lProcessedSize, pSize, seekLog, mUsercache, mGroupcache,
          platform, emptyTurns>>

ZeroPos == [n \in FileNodes |-> 0]

NoLoc == [ok |-> FALSE, path |-> <<>>, used |-> FALSE, lPath |-> <<>>,
          fast |-> FALSE, created |-> FALSE]

sessionVars == <<mRepository, mOpenFile, allocated, filePos>>
loopVars == <<lFile, lProcessedSize, pSize>>
cacheVars == <<mUsercache, mGroupcache>>

\* the ids owning nodes of the tree, and the account database at start
Ids == {0, 7}

InitPlatform ==
    [passwd |-> (0 :> "root") @@ (7 :> ""), group |-> (0 :> "wheel") @@ (7 :> "")]

\* lines 61-71
Init ==
    /\ mRepository = NoRepo
    /\ mOpenFile = NoFile
    /\ allocated = {}
    /\ filePos = ZeroPos
    /\ pc = "idle"
    /\ req = NoReq
    /\ out = <<>>
    /\ loc = NoLoc
    /\ lFile = NoNode
    /\ lProcessedSize = 0
    /\ pSize = 0
    /\ seekLog = <<>>
    /\ mUsercache = {}
    /\ mGroupcache = {}
    /\ platform = InitPlatform
    /\ emptyTurns = 0

NoEntry == <<>>

Sig(name) == [sig |-> name, a |-> 0, b |-> 0, code |-> "", entry |-> NoEntry]
SigN(name, n) == [sig |-> name, a |-> n, b |-> 0, code |-> "", entry |-> NoEntry]
SigErr(code) == [sig |-> "error", a |-> 0, b |-> 0, code |-> code, entry |-> NoEntry]
\* a data chunk: the bytes [a, a + b) of the file; a = -1 for foreign bytes
SigData(off, len) == [sig |-> "data", a |-> off, b |-> len, code |-> "",
                      entry |-> NoEntry]
SigEntry(name, e) == [sig |-> name, a |-> 0, b |-> 0, code |-> "", entry |-> e]

\* The identity of the next Repository object: one no live object and no
\* pointer of the session holds.
FreshId ==
    CHOOSE i \in 1..(MaxRepos + 2) :
        /\ i \notin allocated \cup {mOpenFile.repo}
        /\ \A j \in 1..(i - 1) : j \in allocated \cup {mOpenFile.repo}

Locate(u) == CheckCorrectRepository(mRepository, u, FreshId)

CanAllocate(r) == Cardinality((allocated \ r.deleted) \cup r.created) <= MaxRepos

\* The part of a request that every address-taking handler starts with.
\* The nodes of a new Repository are new objects, at position 0.
DoLocate(u, r) ==
    /\ CanAllocate(r)
    /\ mRepository' = r.repo
    /\ allocated' = (allocated \ r.deleted) \cup r.created
    /\ loc' = [ok |-> r.ok, path |-> r.path, used |-> TRUE,
               lPath |-> NormalizedPath(u),
               fast |-> FastPath(mRepository, NormalizedPath(u)),
               created |-> r.created # {}]

PosAfterLocate(r) ==
    IF r.created = {} /\ r.deleted = {} THEN filePos ELSE ZeroPos


\* ------------------------------------------------------------------------
\* get(): lines 89-128, up to the first read
\* ------------------------------------------------------------------------
\* line 121-122: the resume offset is used when it parses and is below size
ResumeWantedUpToSize(resume, size) == resume.kind = "num" /\ resume.val <= size

ResumeWanted(resume, size) == resume.kind = "num" /\ resume.val < size

GetFull(P, form, resume) ==
    LET u == Render(P, form[1], form[2])
        r == Locate(u)
        lNode == Resolve(r.path, TRUE)
    IN  /\ pc = "idle"
        /\ UNCHANGED <<platform, emptyTurns>>
        /\ DoLocate(u, r)
        /\ req' = Request("GetFull", P, form, resume, FALSE, 0)
        /\ UNCHANGED <<mOpenFile, pSize, cacheVars>>
        /\ IF ~r.ok
           THEN /\ out' = <<SigErr("ERR_SLAVE_DEFINED")>>
                /\ filePos' = PosAfterLocate(r)
                /\ pc' = "idle"
                /\ seekLog' = <<>>
                /\ UNCHANGED <<lFile, lProcessedSize>>
           ELSE IF lNode = NoNode
           THEN /\ out' = <<SigErr("ERR_DOES_NOT_EXIST")>>
                /\ filePos' = PosAfterLocate(r)
                /\ pc' = "idle"
                /\ seekLog' = <<>>
                /\ UNCHANGED <<lFile, lProcessedSize>>
           ELSE IF ~IsFile(lNode)
           THEN /\ out' = <<SigErr("ERR_IS_DIRECTORY")>>
                /\ filePos' = PosAfterLocate(r)
                /\ pc' = "idle"
                /\ seekLog' = <<>>
                /\ UNCHANGED <<lFile, lProcessedSize>>
           ELSE LET size == FileSize(lNode)
                    head == <<Sig("mimeType"), SigN("totalSize", size)>>
                IN  \E s0 \in FileSeek(size, PosAfterLocate(r)[lNode], 0) :
                        IF ResumeWanted(resume, size)
                        THEN \E s1 \in FileSeek(size, s0.pos, resume.val) :
                                /\ filePos' = [PosAfterLocate(r) EXCEPT ![lNode] = s1.pos]
                                /\ seekLog' = <<[off |-> 0, ret |-> s0.ret],
                                                [off |-> resume.val, ret |-> s1.ret]>>
                                /\ out' = IF s1.ret = RetOk
                                          THEN Append(head, Sig("canResume"))
                                          ELSE head
                                /\ lProcessedSize' = IF s1.ret = RetOk
                                                     THEN resume.val ELSE 0
                                /\ lFile' = lNode
                                /\ pc' = "get"
                        ELSE /\ filePos' = [PosAfterLocate(r) EXCEPT ![lNode] = s0.pos]
                             /\ seekLog' = <<[off |-> 0, ret |-> s0.ret]>>
                             /\ out' = head
                             /\ lProcessedSize' = 0
                             /\ lFile' = lNode
                             /\ pc' = "get"

\* lines 132-143: one turn of the streaming loop, or its exit
GetPlainNotCumulative(o) ==
    IF o.ret = RetOk
    THEN [out |-> <<SigData(o.pos - o.len, o.len), SigN("processedSize", o.len)>>,
          processed |-> o.len, pc |-> "get"]
    ELSE IF o.ret = "ERR_NO_CONTENT"
    THEN [out |-> <<SigData(o.pos, 0), SigN("processedSize", lProcessedSize),
                    Sig("finished")>>,
          processed |-> 0, pc |-> "idle"]
    ELSE [out |-> <<SigErr(o.ret)>>, processed |-> 0, pc |-> "idle"]

GetPlain(o) ==
    IF o.ret = RetOk
    THEN [out |-> <<SigData(o.pos - o.len, o.len),
                    SigN("processedSize", (lProcessedSize + o.len) % SizeModulus)>>,
          processed |-> (lProcessedSize + o.len) % SizeModulus, pc |-> "get"]
    ELSE IF o.ret = "ERR_NO_CONTENT"
    THEN [out |-> <<SigData(o.pos, 0), SigN("processedSize", lProcessedSize),
                    Sig("finished")>>,
          processed |-> 0, pc |-> "idle"]
    ELSE [out |-> <<SigErr(o.ret)>>, processed |-> 0, pc |-> "idle"]

GetStep ==
    /\ pc = "get"
    /\ UNCHANGED <<platform, emptyTurns>>
    /\ \E o \in FileRead(FileSize(lFile), filePos[lFile], -1) :
          LET g == GetPlain(o)
          IN  /\ filePos' = [filePos EXCEPT ![lFile] = o.pos]
              /\ out' = out \o g.out
              /\ lProcessedSize' = g.processed
              /\ pc' = g.pc
              /\ lFile' = IF g.pc = "idle" THEN NoNode ELSE lFile
    /\ UNCHANGED <<mRepository, mOpenFile, allocated, req, loc, pSize, seekLog,
                   cacheVars>>

\* ------------------------------------------------------------------------
\* open(): lines 178-212
\* ------------------------------------------------------------------------
\* open() with the access-mode test made after the locate
OpenForReadLocatingFirst(P, form, write) ==
    LET u == Render(P, form[1], form[2])
        r == Locate(u)
        lNode == Resolve(r.path, TRUE)
    IN  /\ pc = "idle"
        /\ UNCHANGED <<platform, emptyTurns>>
        /\ req' = Request("OpenForRead", P, form, NoResume, write, 0)
        /\ pc' = "idle"
        /\ UNCHANGED <<loopVars, cacheVars>>
        /\ DoLocate(u, r)
        /\ IF write \/ ~r.ok \/ lNode = NoNode \/ ~IsFile(lNode)
           THEN /\ out' = <<SigErr(IF write THEN "ERR_CANNOT_OPEN_FOR_WRITING"
                                   ELSE IF ~r.ok THEN "ERR_SLAVE_DEFINED"
                                   ELSE IF lNode = NoNode
                                        THEN "ERR_DOES_NOT_EXIST"
                                        ELSE "ERR_IS_DIRECTORY")>>
                /\ filePos' = PosAfterLocate(r)
                /\ seekLog' = <<>>
                /\ UNCHANGED mOpenFile
           ELSE \E s0 \in FileSeek(FileSize(lNode), PosAfterLocate(r)[lNode], 0) :
                  /\ filePos' = [PosAfterLocate(r) EXCEPT ![lNode] = s0.pos]
                  /\ seekLog' = <<[off |-> 0, ret |-> s0.ret]>>
                  /\ IF s0.ret # RetOk
                     THEN /\ out' = <<SigErr("ERR_CANNOT_OPEN_FOR_READING")>>
                          /\ UNCHANGED mOpenFile
                     ELSE /\ mOpenFile' = [repo |-> r.repo.id, node |-> lNode]
                          /\ out' = <<Sig("mimeType"),
                                      SigN("totalSize", FileSize(lNode)),
                                      SigN("position", 0), Sig("opened")>>

OpenForRead(P, form, write) ==
    LET u == Render(P, form[1], form[2])
        r == Locate(u)
        lNode == Resolve(r.path, TRUE)
    IN  /\ pc = "idle"
        /\ UNCHANGED <<platform, emptyTurns>>
        /\ req' = Request("OpenForRead", P, form, NoResume, write, 0)
        /\ pc' = "idle"
        /\ UNCHANGED <<loopVars, cacheVars>>
        /\ IF write
           THEN /\ out' = <<SigErr("ERR_CANNOT_OPEN_FOR_WRITING")>>
                /\ loc' = NoLoc
                /\ seekLog' = <<>>
                /\ UNCHANGED sessionVars
           ELSE /\ DoLocate(u, r)
                /\ IF ~r.ok \/ lNode = NoNode \/ ~IsFile(lNode)
                   THEN /\ out' = <<SigErr(IF ~r.ok THEN "ERR_SLAVE_DEFINED"
                                           ELSE IF lNode = NoNode
                                                THEN "ERR_DOES_NOT_EXIST"
                                                ELSE "ERR_IS_DIRECTORY")>>
                        /\ filePos' = PosAfterLocate(r)
                        /\ seekLog' = <<>>
                        /\ UNCHANGED mOpenFile
                   ELSE \E s0 \in FileSeek(FileSize(lNode), PosAfterLocate(r)[lNode], 0) :
                          /\ filePos' = [PosAfterLocate(r) EXCEPT ![lNode] = s0.pos]
                          /\ seekLog' = <<[off |-> 0, ret |-> s0.ret]>>
                          /\ IF s0.ret # RetOk
                             THEN /\ out' = <<SigErr("ERR_CANNOT_OPEN_FOR_READING")>>
                                  /\ UNCHANGED mOpenFile
                             ELSE /\ mOpenFile' = [repo |-> r.repo.id, node |-> lNode]
                                  /\ out' = <<Sig("mimeType"),
                                              SigN("totalSize", FileSize(lNode)),
                                              SigN("position", 0), Sig("opened")>>


\* ------------------------------------------------------------------------
\* read(), seek(), close(): lines 214-244 and 84-87
\* ------------------------------------------------------------------------
\* The open file slot points into a Repository that has been deleted.
Dangling == mOpenFile # NoFile /\ mOpenFile.repo \notin allocated

ReadOpen(n) ==
    /\ pc = "idle"
    /\ UNCHANGED <<platform, emptyTurns>>
    /\ req' = Request("ReadOpen", <<>>, <<0, FALSE>>, NoResume, FALSE, n)
    /\ loc' = NoLoc
    /\ seekLog' = <<>>
    /\ IF mOpenFile = NoFile
       THEN /\ out' = <<SigErr("ERR_COULD_NOT_READ")>>
            /\ pc' = "idle"
            /\ UNCHANGED pSize
       ELSE /\ out' = <<>>
            /\ pSize' = n
            /\ pc' = "read"
    /\ UNCHANGED <<sessionVars, lFile, lProcessedSize, cacheVars>>

\* lines 225-230: what read() emits once its loop has ended with lRetVal
ReadEnd(lRetVal) ==
    IF lRetVal = RetOk
    THEN <<SigData(0, 0), Sig("finished")>>
    ELSE <<SigErr(lRetVal)>>

\* lines 221-230: one turn of the loop, or its exit.  A read through a
\* dangling mOpenFile is undefined: the worker dies, or the call returns
\* foreign bytes or a code of its own.
ReadStep ==
    /\ pc = "read"
    /\ UNCHANGED <<platform, emptyTurns>>
    /\ IF pSize = 0
       THEN /\ out' = out \o ReadEnd(RetOk)
            /\ pc' = "idle"
            /\ UNCHANGED <<filePos, pSize, seekLog>>
       ELSE IF Dangling
       THEN /\ UNCHANGED <<filePos, seekLog>>
            /\ \/ /\ pc' = "crashed"
                  /\ UNCHANGED <<out, pSize>>
               \/ \E len \in 1..pSize :
                     /\ out' = Append(out, SigData(-1, len))
                     /\ pSize' = pSize - len
                     /\ pc' = "read"
               \/ \E code \in {"ERR_NO_CONTENT", "ERR_COULD_NOT_READ"} :
                     /\ out' = out \o ReadEnd(code)
                     /\ pc' = "idle"
                     /\ pSize' = 0
       ELSE \E o \in FileRead(FileSize(mOpenFile.node), filePos[mOpenFile.node],
                              CastInt(pSize)) :
               /\ filePos' = [filePos EXCEPT ![mOpenFile.node] = o.pos]
               /\ seekLog' = Append(seekLog, [off |-> CastInt(pSize), ret |-> o.ret])
               /\ IF o.ret = RetOk
                  THEN /\ pSize' = (pSize - o.len) % SizeModulus
                       /\ out' = Append(out, SigData(o.pos - o.len, o.len))
                       /\ pc' = "read"
                  ELSE /\ out' = out \o ReadEnd(o.ret)
                       /\ pc' = "idle"
                       /\ pSize' = 0
    /\ UNCHANGED <<mRepository, mOpenFile, allocated, req, loc, lFile,
                   lProcessedSize, cacheVars>>

SeekOpen(pOffset) ==
    /\ pc = "idle"
    /\ UNCHANGED <<platform, emptyTurns>>
    /\ req' = Request("SeekOpen", <<>>, <<0, FALSE>>, NoResume, FALSE, pOffset)
    /\ loc' = NoLoc
    /\ IF mOpenFile = NoFile
       THEN /\ out' = <<SigErr("ERR_COULD_NOT_SEEK")>>
            /\ pc' = "idle"
            /\ seekLog' = <<>>
            /\ UNCHANGED filePos
       ELSE IF Dangling
       THEN /\ UNCHANGED filePos
            /\ seekLog' = <<>>
            /\ \/ /\ pc' = "crashed"
                  /\ out' = <<>>
               \/ /\ pc' = "idle"
                  /\ out' \in {<<SigN("position", pOffset)>>,
                               <<SigErr("ERR_COULD_NOT_SEEK")>>}
       ELSE \E s \in FileSeek(FileSize(mOpenFile.node), filePos[mOpenFile.node],
                              pOffset) :
               /\ filePos' = [filePos EXCEPT ![mOpenFile.node] = s.pos]
               /\ seekLog' = <<[off |-> pOffset, ret |-> s.ret]>>
               /\ out' = IF s.ret = RetOk THEN <<SigN("position", pOffset)>>
                         ELSE <<SigErr("ERR_COULD_NOT_SEEK")>>
               /\ pc' = "idle"
    /\ UNCHANGED <<mRepository, mOpenFile, allocated, loopVars, cacheVars>>

CloseKeepingHandle ==
    /\ pc = "idle"
    /\ UNCHANGED <<platform, emptyTurns>>
    /\ req' = Request("Close", <<>>, <<0, FALSE>>, NoResume, FALSE, 0)
    /\ out' = <<Sig("finished")>>
    /\ loc' = NoLoc
    /\ seekLog' = <<>>
    /\ pc' = "idle"
    /\ UNCHANGED <<sessionVars, loopVars, cacheVars>>

Close ==
    /\ pc = "idle"
    /\ UNCHANGED <<platform, emptyTurns>>
    /\ req' = Request("Close", <<>>, <<0, FALSE>>, NoResume, FALSE, 0)
    /\ mOpenFile' = NoFile
    /\ out' = <<Sig("finished")>>
    /\ loc' = NoLoc
    /\ seekLog' = <<>>
    /\ pc' = "idle"
    /\ UNCHANGED <<mRepository, allocated, filePos, loopVars, cacheVars>>

\* ------------------------------------------------------------------------
\* getUserName / getGroupName (lines 327-351) and createUDSEntry (353-380)
\* ------------------------------------------------------------------------
\* getpwuid / getgrgid: the ids the platform can name
PasswdName(uid) == platform.passwd[uid]
GroupName(gid) == platform.group[gid]

CacheContains(cache, id) == \E e \in cache : e.id = id
CacheValue(cache, id) == (CHOOSE e \in cache : e.id = id).name
CacheInsert(cache, id, name) ==
    {e \in cache : e.id # id} \cup {[id |-> id, name |-> name]}

\* getUserName that also remembers the id it could not name
GetUserNameCachingFailure(cache, pUid) ==
    IF ~CacheContains(cache, pUid)
    THEN LET name == IF PasswdName(pUid) # "" THEN PasswdName(pUid)
                     ELSE ToString(pUid)
         IN  [name |-> name, cache |-> CacheInsert(cache, pUid, name)]
    ELSE [name |-> CacheValue(cache, pUid), cache |-> cache]

\* the name returned and the cache afterwards
GetUserName(cache, pUid) ==
    IF ~CacheContains(cache, pUid)
    THEN IF PasswdName(pUid) # ""
         THEN [name |-> PasswdName(pUid),
               cache |-> CacheInsert(cache, pUid, PasswdName(pUid))]
         ELSE [name |-> ToString(pUid), cache |-> cache]
    ELSE [name |-> CacheValue(cache, pUid), cache |-> cache]

GetGroupName(cache, pGid) ==
    IF ~CacheContains(cache, pGid)
    THEN IF GroupName(pGid) # ""
         THEN [name |-> GroupName(pGid),
               cache |-> CacheInsert(cache, pGid, GroupName(pGid))]
         ELSE [name |-> ToString(pGid), cache |-> cache]
    ELSE [name |-> CacheValue(cache, pGid), cache |-> cache]

NodeName(node) == IF node = <<>> THEN <<>> ELSE node[Len(node)]

\* Node::mMimeType and Node::mAtime of the nodes of the tree
NodeMimeType(node) ==
    IF NodeTable[node].kind = "Directory" THEN "inode/directory"
    ELSE IF NodeTable[node].kind = "Symlink" THEN "inode/symlink"
    ELSE IF node = <<<<"f">>>> THEN "text/plain" ELSE "application/octet-stream"

NodeAtime(node) == NodeTable[node].mMtime + 20

\* mMode & S_IFMT and mMode & 07777
FileTypeBits(mode) ==
    IF mode \in {"d755", "d700"} THEN "S_IFDIR"
    ELSE IF mode = "l777" THEN "S_IFLNK" ELSE "S_IFREG"

AccessBits(mode) ==
    IF mode = "d755" THEN 493 ELSE IF mode = "d700" THEN 448
    ELSE IF mode = "l777" THEN 511 ELSE IF mode = "-644" THEN 420 ELSE 384

\* line 357: the level from which a link is followed
FollowLinkAtAnyDetail(pDetails) == pDetails > 0

FollowLink(pDetails) == pDetails > 1

\* the record for pNode at pDetails (a UDSEntry: field -> value), and both
\* caches afterwards
CreateUDSEntry(pNode, pDetails, ucache, gcache) ==
    LET n0 == NodeTable[pNode]
        t == ParentOf(pNode) \o SplitSkipEmpty(n0.target)
        eff == IF n0.target # <<>> /\ FollowLink(pDetails) /\ t \in NodePaths
               THEN t ELSE pNode
        n == NodeTable[eff]
        u == GetUserName(ucache, n.mUid)
        g == GetGroupName(gcache, n.mGid)
        base == ("UDS_NAME" :> NodeName(pNode))
                @@ (IF n0.target # <<>> THEN "UDS_LINK_DEST" :> n0.target
                    ELSE <<>>)
                @@ ("UDS_FILE_TYPE" :> FileTypeBits(n.mMode))
                @@ ("UDS_ACCESS" :> AccessBits(n.mMode))
    IN  IF pDetails > 0
        THEN [entry |-> base
                        @@ ("UDS_SIZE" :> IF IsFile(eff) THEN FileSize(eff) ELSE 0)
                        @@ ("UDS_MIME_TYPE" :> NodeMimeType(eff))
                        @@ ("UDS_ACCESS_TIME" :> NodeAtime(eff))
                        @@ ("UDS_MODIFICATION_TIME" :> n.mMtime)
                        @@ ("UDS_USER" :> u.name)
                        @@ ("UDS_GROUP" :> g.name),
              ucache |-> u.cache, gcache |-> g.cache]
        ELSE [entry |-> base, ucache |-> ucache, gcache |-> gcache]

\* lines 259-260 and 166-167: the "details" metadata, 2 when absent
DetailsInputs ==
    {[kind |-> "empty", val |-> 0], [kind |-> "junk", val |-> 0]}
    \cup {[kind |-> "num", val |-> v] : v \in 0..3}

DetailsOf(sDetails) ==
    IF sDetails.kind = "empty" THEN 2
    ELSE IF sDetails.kind = "num" THEN sDetails.val ELSE 0

\* ------------------------------------------------------------------------
\* stat(), mimetype(), listDir(): lines 246-283 and 146-176
\* ------------------------------------------------------------------------
LookupErrorAlwaysNotFound(r, lNode) == "ERR_DOES_NOT_EXIST"

LookupError(r, lNode) ==
    IF ~r.ok THEN "ERR_SLAVE_DEFINED" ELSE "ERR_DOES_NOT_EXIST"

Stat(P, form, sDetails) ==
    LET u == Render(P, form[1], form[2])
        r == Locate(u)
        lNode == Resolve(r.path, FALSE)
    IN  /\ pc = "idle"
        /\ UNCHANGED <<platform, emptyTurns>>
        /\ DoLocate(u, r)
        /\ req' = Request("Stat", P, form, sDetails, FALSE, 0)
        /\ filePos' = PosAfterLocate(r)
        /\ seekLog' = <<>>
        /\ pc' = "idle"
        /\ UNCHANGED <<mOpenFile, loopVars>>
        /\ IF ~r.ok \/ lNode = NoNode
           THEN /\ out' = <<SigErr(LookupError(r, lNode))>>
                /\ UNCHANGED cacheVars
           ELSE LET e == CreateUDSEntry(lNode, DetailsOf(sDetails), mUsercache,
                                        mGroupcache)
                IN  /\ out' = <<SigEntry("statEntry", e.entry), Sig("finished")>>
                    /\ mUsercache' = e.ucache
                    /\ mGroupcache' = e.gcache

MimeTypeOf(P, form) ==
    LET u == Render(P, form[1], form[2])
        r == Locate(u)
        lNode == Resolve(r.path, FALSE)
    IN  /\ pc = "idle"
        /\ UNCHANGED <<platform, emptyTurns>>
        /\ DoLocate(u, r)
        /\ req' = Request("MimeTypeOf", P, form, NoResume, FALSE, 0)
        /\ filePos' = PosAfterLocate(r)
        /\ seekLog' = <<>>
        /\ pc' = "idle"
        /\ UNCHANGED <<mOpenFile, loopVars, cacheVars>>
        /\ out' = IF ~r.ok \/ lNode = NoNode
                  THEN <<SigErr(LookupError(r, lNode))>>
                  ELSE <<Sig("mimeType"), Sig("finished")>>

\* lines 169-174: one record per child, in order, through the caches
RECURSIVE ListEntries(_, _, _, _)
ListEntries(children, pDetails, ucache, gcache) ==
    IF children = <<>>
    THEN [out |-> <<>>, ucache |-> ucache, gcache |-> gcache]
    ELSE LET e == CreateUDSEntry(Head(children), pDetails, ucache, gcache)
             rest == ListEntries(Tail(children), pDetails, e.ucache, e.gcache)
         IN  [out |-> <<SigEntry("listEntry", e.entry)>> \o rest.out,
              ucache |-> rest.ucache, gcache |-> rest.gcache]

ListDirectory(P, form, sDetails) ==
    LET u == Render(P, form[1], form[2])
        r == Locate(u)
        lNode == Resolve(r.path, TRUE)
    IN  /\ pc = "idle"
        /\ UNCHANGED <<platform, emptyTurns>>
        /\ DoLocate(u, r)
        /\ req' = Request("ListDirectory", P, form, sDetails, FALSE, 0)
        /\ filePos' = PosAfterLocate(r)
        /\ seekLog' = <<>>
        /\ pc' = "idle"
        /\ UNCHANGED <<mOpenFile, loopVars>>
        /\ IF ~r.ok \/ lNode = NoNode
           THEN /\ out' = <<SigErr(LookupError(r, lNode))>>
                /\ UNCHANGED cacheVars
           ELSE IF NodeTable[lNode].kind # "Directory"
           THEN /\ out' = <<SigErr("ERR_IS_FILE")>>
                /\ UNCHANGED cacheVars
           ELSE LET l == ListEntries(SubNodes(lNode), DetailsOf(sDetails),
                                     mUsercache, mGroupcache)
                IN  /\ out' = Append(l.out, Sig("finished"))
                    /\ mUsercache' = l.ucache
                    /\ mGroupcache' = l.gcache

\* ------------------------------------------------------------------------
\* The session: one request at a time, each served to its end
\* ------------------------------------------------------------------------
Requests(paths, forms, resumes, details, sizes, offsets) ==
    \/ \E P \in paths, form \in forms, resume \in resumes : GetFull(P, form, resume)
    \/ GetStep
    \/ \E P \in paths, form \in forms, write \in BOOLEAN : OpenForRead(P, form, write)
    \/ \E n \in sizes : ReadOpen(n)
    \/ ReadStep
    \/ \E pOffset \in offsets : SeekOpen(pOffset)
    \/ Close
    \/ \E P \in paths, form \in forms, d \in details : Stat(P, form, d)
    \/ \E P \in paths, form \in forms : MimeTypeOf(P, form)
    \/ \E P \in paths, form \in forms, d \in details : ListDirectory(P, form, d)

OneSlash == {<<1, FALSE>>}

\* A session that moves between two valid archives, a corrupt one and a
\* plain directory, addressed in the one-slash form.
SessionPaths ==
    { <<<<"a">>, <<"d">>, <<"g">>>>, <<<<"a">>, <<"d">>>>,
      <<<<"B">>, <<"b">>, <<"d">>, <<"g">>>>, <<<<"c">>, <<"a">>, <<"f">>>>,
      <<<<"b">>, <<"f">>>> }

Next ==
    Requests(SessionPaths, OneSlash, {NoResume}, {[kind |-> "num", val |-> 0]},
             0..1, 0..1)

Spec == Init /\ [][Next]_vars

\* Streaming inside one archive: every resume offset, budget and seek offset.
StreamPaths ==
    { <<<<"a">>, <<"f">>>>, <<<<"a">>, <<"e">>>>, <<<<"a">>, <<"d">>>>,
      <<<<"a">>, <<"n">>>> }

NextStream ==
    Requests(StreamPaths, OneSlash, Resumes, {[kind |-> "num", val |-> 0]},
             0..MaxReadSize, Offsets)

SpecStream == Init /\ [][NextStream]_vars


\* The locator alone: every path of the model in every address form.
NextLocate ==
    \/ \E P \in Paths, form \in Forms : MimeTypeOf(P, form)
    \/ \E P \in Paths, form \in Forms : Stat(P, form, [kind |-> "num", val |-> 0])

SpecLocate == Init /\ [][NextLocate]_vars

\* ------------------------------------------------------------------------
\* Properties
\* ------------------------------------------------------------------------
Last(q) == q[Len(q)]

\* C1: whenever the open file slot is set, the File node it references
\* belongs to the Repository that is currently held.
C1_OpenFileInLiveRepository ==
    mOpenFile # NoFile => (mRepository # NoRepo /\ mOpenFile.repo = mRepository.id)

\* C2: at most one Repository object is allocated and not released, and the
\* Repository the session holds is an allocated one.
C2_AtMostOneRepositoryAllocated ==
    /\ Cardinality(allocated) <= 1
    /\ mRepository # NoRepo => mRepository.id \in allocated

\* The archives of the file system, as component lists: the directories that
\* carry the markers, those that open, and the outermost valid ones.
MarkerDirs ==
    { <<<<"a">>>>, <<<<"a">>, <<"d">>>>, <<<<"B">>, <<"b">>>>, <<<<"c">>>>,
      <<<<"c">>, <<"a">>>> }

ValidDirs == MarkerDirs \ { <<<<"c">>>> }

ArchiveRoots == { <<<<"a">>>>, <<<<"B">>, <<"b">>>> }

IsPrefix(R, P) == Len(R) <= Len(P) /\ SubSeq(P, 1, Len(R)) = R

DirString(R) == <<Slash>> \o Join(R) \o <<Slash>>

\* C3: for a path P under an archive root R, locate returns R and the
\* components of P after R, in every address form and whether or not R was
\* already open.
C3_LocateReturnsRootAndRemainder ==
    \A R \in ArchiveRoots :
        (loc.used /\ IsPrefix(R, req.P))
            => /\ loc.ok
               /\ mRepository.objectName = DirString(R)
               /\ loc.path = SubSeq(req.P, Len(R) + 1, Len(req.P))

\* The components the walk sees: those of the address, the first one read
\* as a host when the address has two leading slashes.
WalkedComponents ==
    IF req.slashes = 2 /\ req.P # <<>>
    THEN <<ToLower(req.P[1])>> \o Tail(req.P)
    ELSE req.P

Candidates ==
    {k \in 1..Len(WalkedComponents) : SubSeq(WalkedComponents, 1, k) \in MarkerDirs}

Shallowest == CHOOSE k \in Candidates : \A j \in Candidates : k <= j

\* C4: when no Repository is reused, locate takes the shallowest ancestor
\* that carries the markers; it fails when that candidate does not open,
\* without trying a deeper one, and when no ancestor carries the markers.
C4_ShallowestCandidateOrNotFound ==
    (loc.used /\ ~loc.fast)
        => IF Candidates = {}
           THEN ~loc.ok /\ ~loc.created
                /\ (mRepository = NoRepo \/ ~mRepository.valid)
           ELSE LET root == SubSeq(WalkedComponents, 1, Shallowest)
                IN  /\ loc.created
                    /\ mRepository.objectName = DirString(root)
                    /\ loc.ok = (root \in ValidDirs)
                    /\ mRepository.valid = (root \in ValidDirs)
                    /\ loc.ok => loc.path = SubSeq(WalkedComponents, Shallowest + 1,
                                                   Len(WalkedComponents))

\* A request below /c/a/ has failed on the corrupt /c/.
C4_Witness ==
    /\ loc.used /\ ~loc.fast /\ ~loc.ok
    /\ req.P = <<<<"c">>, <<"a">>, <<"f">>>>
    /\ mRepository.objectName = <<"/", "c", "/">>


\* ---- what a response holds ----
Range(a, n) == [i \in 1..n |-> a + i - 1]

\* the bytes of the file carried by the data chunks of o, in order
RECURSIVE DataBytes(_)
DataBytes(o) ==
    IF o = <<>> THEN <<>>
    ELSE (IF Head(o).sig = "data" THEN Range(Head(o).a, Head(o).b) ELSE <<>>)
             \o DataBytes(Tail(o))

IsProcessed(s) == s.sig = "processedSize"

ProcessedValues(o) ==
    LET q == SelectSeq(o, IsProcessed) IN [i \in 1..Len(q) |-> q[i].a]

HasSig(o, name) == \E i \in 1..Len(o) : o[i].sig = name

EmptyChunks(o) == {i \in 1..Len(o) : o[i].sig = "data" /\ o[i].b = 0}

Finished(o) == o # <<>> /\ Last(o).sig = "finished"

StoreReadFailed(o) ==
    o # <<>> /\ Last(o).sig = "error" /\ Last(o).code = "ERR_COULD_NOT_READ"

\* the file a GetFull request streams, once it has passed the lookups
ReqFile == Resolve(loc.path, TRUE)

InGetFull == req.op = "GetFull" /\ loc.ok /\ IsFile(ReqFile)

ResumeSeekFailed == Len(seekLog) = 2 /\ seekLog[2].ret # RetOk

ResumeSeekDone == Len(seekLog) = 2 /\ seekLog[2].ret = RetOk

\* C5: a GetFull whose resume offset is below size and whose seek to it
\* fails emits the whole file from byte 0, no resume-accepted signal, a
\* processed size ending at size, and finishes, wherever the failed seek
\* left the file (a failing store read aside).
C5_FailedResumeSeekEmitsWholeFile ==
    (pc = "idle" /\ InGetFull /\ ResumeSeekFailed /\ ~StoreReadFailed(out))
        => /\ Finished(out)
           /\ ~HasSig(out, "canResume")
           /\ DataBytes(out) = Range(0, FileSize(ReqFile))
           /\ ProcessedValues(out) # <<>>
           /\ Last(ProcessedValues(out)) = FileSize(ReqFile)

\* C6: in a GetFull whose seek to the resume offset succeeds, resume-accepted
\* is signalled before any data, only bytes from the offset on are emitted and
\* every processed size is above the offset; when the transfer finishes
\* exactly the bytes from the offset to the end have been emitted and the
\* last processed size is size.  A resume offset that is not a number below
\* size causes no seek beyond the rewind and no resume-accepted signal.
C6_ResumeEmitsRemainder ==
    (InGetFull /\ pc \in {"get", "idle"})
        => LET size == FileSize(ReqFile)
               off == req.resume.val
               bytes == DataBytes(out)
           IN  /\ ResumeSeekDone
                    => /\ req.resume.kind = "num" /\ off < size
                       /\ seekLog[2].off = off
                       /\ out[3].sig = "canResume"
                       /\ bytes = Range(off, Len(bytes))
                       /\ \A i \in 1..Len(ProcessedValues(out)) :
                              ProcessedValues(out)[i] > off
                       /\ Finished(out)
                            => /\ bytes = Range(off, size - off)
                               /\ Last(ProcessedValues(out)) = size
               /\ (req.resume.kind # "num" \/ off >= size)
                    => /\ Len(seekLog) = 1 /\ seekLog[1].off = 0
                       /\ ~HasSig(out, "canResume")

\* The last two bytes of the three-byte file, after a resume at offset 1.
C6_Witness ==
    /\ pc = "idle" /\ InGetFull /\ ResumeSeekDone /\ Finished(out)
    /\ req.resume = [kind |-> "num", val |-> 1]
    /\ FileSize(ReqFile) = 3
    /\ DataBytes(out) = <<1, 2>>

\* C7: a ReadOpen on an open handle ends, whether the budget ran out or the
\* store returned EndOfData, with exactly one empty chunk followed by
\* finished (a failing store read aside).
C7_BoundedReadEndsWithMarker ==
    (pc = "idle" /\ req.op = "ReadOpen" /\ mOpenFile # NoFile
     /\ ~StoreReadFailed(out))
        => /\ Finished(out)
           /\ EmptyChunks(out) = {Len(out) - 1}

StrictlyIncreasing(q) == \A i \in 1..(Len(q) - 1) : q[i] < q[i + 1]

\* C8: the processed sizes reported during a GetFull are strictly increasing,
\* through the completion of the response.
C8_ProcessedStrictlyIncreasing ==
    req.op = "GetFull" => StrictlyIncreasing(ProcessedValues(out))

\* the processed size reported before out[i], or the baseline of the transfer
RECURSIVE ProcessedBefore(_, _)
ProcessedBefore(o, i) ==
    IF i <= 1 THEN (IF ResumeSeekDone THEN req.resume.val ELSE 0)
    ELSE IF IsProcessed(o[i - 1]) THEN o[i - 1].a
         ELSE ProcessedBefore(o, i - 1)

\* C8, amended: every processed size of a GetFull follows a data chunk and
\* equals the value reported before it (the resume offset or 0 at first)
\* plus that chunk's length, so the sequence never decreases, grows with every
\* non-empty chunk, and repeats its last value after the empty final chunk.
C8_ProcessedIsCumulative ==
    req.op = "GetFull"
        => \A i \in 1..Len(out) :
              IsProcessed(out[i])
                 => /\ i > 1 /\ out[i - 1].sig = "data"
                    /\ out[i].a = ProcessedBefore(out, i) + out[i - 1].b

\* A finished transfer of several chunks.
C8_Witness ==
    /\ pc = "idle" /\ InGetFull /\ Finished(out)
    /\ Len(ProcessedValues(out)) >= 3

SuccessOf(op) ==
    IF op = "OpenForRead" THEN "opened"
    ELSE IF op = "SeekOpen" THEN "position" ELSE "finished"

\* C9: a request emits exactly one terminal signal, error or its success
\* terminator, as the last signal of its response, and nothing after an
\* error.
C9_ExactlyOneTerminalSignal ==
    /\ \A i \in 1..(Len(out) - 1) : out[i].sig # "error"
    /\ (pc \in {"idle", "crashed"} /\ req.op # "none")
          => /\ out # <<>>
             /\ Last(out).sig \in {"error", SuccessOf(req.op)}
             /\ \A i \in 1..(Len(out) - 1) : out[i].sig # SuccessOf(req.op)

EmptyFile == <<<<"e">>>>

\* C10: reading the file of length 0 transfers no bytes and finishes after
\* an empty chunk, in GetFull and in ReadOpen with a positive budget.
C10_EmptyFileCompletes ==
    (pc = "idle"
     /\ \/ InGetFull /\ ReqFile = EmptyFile
        \/ req.op = "ReadOpen" /\ req.n > 0 /\ mOpenFile.node = EmptyFile)
        => /\ DataBytes(out) = <<>>
           /\ EmptyChunks(out) # {}
           /\ Finished(out)

\* ------------------------------------------------------------------------
\* Lookups inside archives: files, directories, symlinks, a missing name, a
\* path under no archive and a path under the corrupt archive.
\* ------------------------------------------------------------------------
ClassifyPaths ==
    { <<<<"a">>, <<"f">>>>, <<<<"a">>, <<"d">>>>, <<<<"a">>, <<"n">>>>,
      <<<<"a">>, <<"l">>>>, <<<<"a">>, <<"x">>>>,
      <<<<"b">>, <<"f">>>>, <<<<"c">>, <<"a">>, <<"f">>>> }

NextClassify ==
    Requests(ClassifyPaths, OneSlash, {NoResume}, {[kind |-> "num", val |-> 0]},
             {1}, {0})

SpecClassify == Init /\ [][NextClassify]_vars

ErrorCodes(o) == {o[i].code : i \in {j \in 1..Len(o) : o[j].sig = "error"}}

AddressOps == {"GetFull", "OpenForRead", "Stat", "MimeTypeOf", "ListDirectory"}

\* the node a request works on: links are followed except by Stat/MimeTypeOf
ReqNode == Resolve(loc.path, req.op \in {"GetFull", "OpenForRead", "ListDirectory"})

KindOf(node) == NodeTable[node].kind

\* C11: inside a valid archive, GetFull and OpenForRead of a Directory fail
\* with IsDirectory while Stat of it succeeds with the directory's record;
\* ListDirectory of a non-directory fails with IsFile; NotFound is emitted
\* exactly when the path resolves to no node and RepositoryNotFound exactly
\* when locate fails.
C11_ErrorsClassifiedByKind ==
    (req.op \in AddressOps /\ loc.used)
        => /\ "ERR_SLAVE_DEFINED" \in ErrorCodes(out) <=> ~loc.ok
           /\ "ERR_DOES_NOT_EXIST" \in ErrorCodes(out)
                 <=> (loc.ok /\ ReqNode = NoNode)
           /\ (loc.ok /\ ReqNode # NoNode)
                 => /\ (req.op \in {"GetFull", "OpenForRead"}
                        /\ KindOf(ReqNode) = "Directory")
                          => out = <<SigErr("ERR_IS_DIRECTORY")>>
                    /\ (req.op = "ListDirectory" /\ KindOf(ReqNode) # "Directory")
                          => out = <<SigErr("ERR_IS_FILE")>>
                    /\ req.op = "Stat"
                          => /\ Len(out) = 2
                             /\ out[1].sig = "statEntry"
                             /\ out[1].entry.UDS_NAME = NodeName(ReqNode)
                             /\ out[1].entry.UDS_ACCESS = AccessBits(NodeTable[ReqNode].mMode)
                             /\ out[2].sig = "finished"

\* GetFull of the directory /a/d has failed with IsDirectory.
C11_Witness ==
    /\ req.op = "GetFull" /\ loc.ok
    /\ loc.path = <<<<"d">>>>
    /\ out = <<SigErr("ERR_IS_DIRECTORY")>>

\* ReadOpen or SeekOpen has been served with the slot empty.
NoHandleRequest ==
    pc = "idle" /\ req.op \in {"ReadOpen", "SeekOpen"} /\ mOpenFile = NoFile

C12_FailsWithoutHandle ==
    NoHandleRequest => (Len(out) = 1 /\ out[1].sig = "error")

\* The slot is cleared by Close, set to the opened file by a successful
\* OpenForRead, and changed by nothing else.
C12_SlotStep ==
    /\ (pc = "idle" /\ req'.op = "Close") => mOpenFile' = NoFile
    /\ (pc = "idle" /\ req'.op = "OpenForRead" /\ HasSig(out', "opened"))
          => mOpenFile' = [repo |-> mRepository'.id,
                           node |-> Resolve(loc'.path, TRUE)]
    /\ mOpenFile' # mOpenFile
          => /\ pc = "idle"
             /\ \/ req'.op = "Close"
                \/ req'.op = "OpenForRead" /\ HasSig(out', "opened")

\* C12: the slot is empty at the start of the session and from every Close
\* to the next successful OpenForRead, and while it is empty ReadOpen and
\* SeekOpen fail with an error and nothing else; a successful OpenForRead
\* makes the slot reference the newly opened file.
C12_HandleSlot ==
    /\ mOpenFile = NoFile
    /\ []C12_FailsWithoutHandle
    /\ [][C12_SlotStep]_vars

\* A ReadOpen refused with the slot empty although a file has been read.
C12_Witness ==
    /\ NoHandleRequest /\ req.op = "ReadOpen"
    /\ out = <<SigErr("ERR_COULD_NOT_READ")>>
    /\ filePos[<<<<"f">>>>] > 0

\* C13: an OpenForRead asking for write access fails with
\* CannotOpenForWriting for every address and changes neither the held
\* Repository nor the open file slot (nor any file position).
C13_WriteOpenStep ==
    (pc = "idle" /\ req'.op = "OpenForRead" /\ req'.write)
        => /\ out' = <<SigErr("ERR_CANNOT_OPEN_FOR_WRITING")>>
           /\ UNCHANGED sessionVars

C13_WriteOpenRefused == [][C13_WriteOpenStep]_vars

\* A write open of a path under no archive, refused while /a/ is held and a
\* file of it is open.
C13_Witness ==
    /\ req.op = "OpenForRead" /\ req.write
    /\ req.P = <<<<"b">>, <<"f">>>>
    /\ out = <<SigErr("ERR_CANNOT_OPEN_FOR_WRITING")>>
    /\ mRepository.objectName = <<"/", "a", "/">>
    /\ mOpenFile.node = <<<<"f">>>>

\* ------------------------------------------------------------------------
\* The encoder: Stat and ListDirectory at every detail level, on the root
\* of /a/, a file, a directory, and the two symlinks.
\* ------------------------------------------------------------------------
EncodePaths ==
    { <<<<"a">>>>, <<<<"a">>, <<"f">>>>, <<<<"a">>, <<"d">>>>,
      <<<<"a">>, <<"l">>>>, <<<<"a">>, <<"x">>>> }

EncodeDetails == DetailsInputs \cup {[kind |-> "num", val |-> -1]}

NextEncode ==
    \/ \E P \in EncodePaths, d \in EncodeDetails : Stat(P, <<1, FALSE>>, d)
    \/ \E P \in EncodePaths, d \in EncodeDetails : ListDirectory(P, <<1, FALSE>>, d)

SpecEncode == Init /\ [][NextEncode]_vars

DetailKeys ==
    {"UDS_SIZE", "UDS_MIME_TYPE", "UDS_ACCESS_TIME", "UDS_MODIFICATION_TIME",
     "UDS_USER", "UDS_GROUP"}

IsEntry(s) == s.sig \in {"statEntry", "listEntry"}

\* the nodes a finished Stat or ListDirectory has encoded, in order
EncodedNodes ==
    IF req.op = "Stat" THEN <<loc.path>> ELSE SubNodes(Resolve(loc.path, TRUE))

LinkTarget(node) == ParentOf(node) \o SplitSkipEmpty(NodeTable[node].target)

\* the name the platform gives an id, or its decimal string
DisplayName(name, id) == IF name # "" THEN name ELSE ToString(id)

\* e is the record the claim asks for node at detail level d
EncodesAs(e, node, d) ==
    LET link == KindOf(node) = "Symlink"
        src == IF link /\ d >= 2 /\ LinkTarget(node) \in NodePaths
               THEN LinkTarget(node) ELSE node
    IN  /\ e.UDS_NAME = NodeName(node)
        /\ IF link THEN e.UDS_LINK_DEST = NodeTable[node].target
           ELSE "UDS_LINK_DEST" \notin DOMAIN e
        /\ IF d >= 1
           THEN /\ DetailKeys \subseteq DOMAIN e
                /\ e.UDS_SIZE = (IF KindOf(src) = "File" THEN NodeTable[src].size
                                 ELSE 0)
                /\ e.UDS_MIME_TYPE = NodeMimeType(src)
                /\ e.UDS_ACCESS_TIME = NodeAtime(src)
                /\ e.UDS_MODIFICATION_TIME = NodeTable[src].mMtime
                /\ e.UDS_USER = DisplayName(PasswdName(NodeTable[src].mUid),
                                            NodeTable[src].mUid)
                /\ e.UDS_GROUP = DisplayName(GroupName(NodeTable[src].mGid),
                                             NodeTable[src].mGid)
           ELSE DOMAIN e \cap DetailKeys = {}

\* C14: every record of a finished Stat or ListDirectory carries the name
\* and link destination of the node itself; below level 1 it has none of
\* size, MIME type, times, owner, group; from level 1 it has them, taken
\* from the node itself, or, for a symlink at level 2 or more whose target
\* resolves from its parent, from the target; size is 0 unless that node is
\* a File.
C14_RecordByDetailLevel ==
    (req.op \in {"Stat", "ListDirectory"} /\ loc.ok /\ Finished(out))
        => LET entries == SelectSeq(out, IsEntry)
           IN  /\ Len(entries) = Len(EncodedNodes)
               /\ \A i \in 1..Len(entries) :
                     EncodesAs(entries[i].entry, EncodedNodes[i],
                               DetailsOf(req.resume))

\* A listing at the default level: the link l shows the size of its target
\* f and its own destination, the dangling link x its own attributes.
C14_Witness ==
    /\ req.op = "ListDirectory" /\ req.resume.kind = "empty" /\ Finished(out)
    /\ loc.path = <<>>
    /\ out[4].entry.UDS_NAME = <<"l">>
    /\ out[4].entry.UDS_LINK_DEST = <<"f">>
    /\ out[4].entry.UDS_SIZE = 3
    /\ out[6].entry.UDS_NAME = <<"x">>
    /\ out[6].entry.UDS_MIME_TYPE = "inode/symlink"

\* ------------------------------------------------------------------------
\* The name caches: detailed Stat requests on nodes of every owner and
\* group, while accounts are added, renamed and removed on the platform.
\* ------------------------------------------------------------------------
Platforms ==
    { p \in [passwd : [Ids -> {"", "root", "admin", "bob"}],
             group : [Ids -> {"", "wheel", "staff"}]] :
        /\ p.passwd[0] \in {"", "root", "admin"} /\ p.passwd[7] \in {"", "bob"}
        /\ p.group[0] \in {"", "wheel"} /\ p.group[7] \in {"", "staff"} }

PlatformChange ==
    /\ pc = "idle"
    /\ \E p \in Platforms \ {platform} : platform' = p
    /\ UNCHANGED <<sessionVars, loopVars, cacheVars, pc, req, out, loc, seekLog,
                   emptyTurns>>

CachePaths ==
    { <<<<"a">>, <<"f">>>>, <<<<"a">>, <<"e">>>>, <<<<"a">>, <<"d">>>>,
      <<<<"a">>, <<"l">>>> }

NextCache ==
    \/ \E P \in CachePaths, v \in 0..1 :
          Stat(P, <<1, FALSE>>, [kind |-> "num", val |-> v])
    \/ PlatformChange

SpecCache == Init /\ [][NextCache]_vars

\* one lookup of id: a cached name is returned and the cache kept; else the
\* platform is asked, and its name cached and returned, or the decimal
\* string returned and nothing cached
LookedUp(cache, cacheAfter, db, id, name) ==
    IF \E e \in cache : e.id = id
    THEN [id |-> id, name |-> name] \in cache /\ cacheAfter = cache
    ELSE IF db[id] # ""
         THEN name = db[id] /\ cacheAfter = cache \cup {[id |-> id, name |-> db[id]]}
         ELSE name = ToString(id) /\ cacheAfter = cache

OneNamePerId(cache) == \A e1, e2 \in cache : e1.id = e2.id => e1 = e2

C15_CacheStep ==
    /\ mUsercache \subseteq mUsercache'
    /\ mGroupcache \subseteq mGroupcache'
    /\ (platform' # platform \/ req'.op \notin {"Stat", "ListDirectory"})
          => UNCHANGED cacheVars
    /\ (pc = "idle" /\ platform' = platform /\ req'.op = "Stat"
        /\ Finished(out') /\ DetailsOf(req'.resume) = 1)
          => LET n == NodeTable[loc'.path]
                 e == out'[1].entry
             IN  /\ LookedUp(mUsercache, mUsercache', platform.passwd, n.mUid,
                             e.UDS_USER)
                 /\ LookedUp(mGroupcache, mGroupcache', platform.group, n.mGid,
                             e.UDS_GROUP)

\* C15: a cache holds one name per id and never loses or changes an entry;
\* a lookup of a cached id returns the cached name whatever the platform
\* says now; a lookup of an id not cached asks the platform, caching its
\* name, or returning the decimal string of the id and caching nothing, so
\* that the next lookup asks again; owner lookups use only the user cache and
\* the account database, group lookups only the group cache and the group
\* database.
C15_CachesImmutable ==
    /\ [](OneNamePerId(mUsercache) /\ OneNamePerId(mGroupcache))
    /\ [][C15_CacheStep]_vars

\* The owner of /a/d is reported by its cached name after the account was
\* renamed, next to a group the platform cannot name and that is not cached.
C15_Witness ==
    /\ req.op = "Stat" /\ Finished(out) /\ req.P = <<<<"a">>, <<"d">>>>
    /\ DetailsOf(req.resume) = 1
    /\ out[1].entry.UDS_USER = "root"
    /\ platform.passwd[0] = "admin"
    /\ out[1].entry.UDS_GROUP = "0"
    /\ mGroupcache = {}

CorruptRoots == MarkerDirs \ ValidDirs

\* the held Repository is one that failed to open
HoldsFailedRepository == mRepository # NoRepo /\ ~mRepository.valid

\* C16: the request that follows a failed archive open does not reuse the
\* failed Repository; when its path lies under a valid archive it is located
\* there with that archive as the Repository, and when it lies under the
\* corrupt root again a new Repository is constructed for the candidate and
\* the request fails as the first one did.
C16_NextRequestStep ==
    (pc = "idle" /\ HoldsFailedRepository /\ loc'.used)
        => /\ ~loc'.fast
           /\ \A R \in ArchiveRoots :
                 IsPrefix(R, req'.P)
                    => /\ loc'.ok /\ mRepository'.valid
                       /\ mRepository'.objectName = DirString(R)
                       /\ loc'.path = SubSeq(req'.P, Len(R) + 1, Len(req'.P))
                       /\ "ERR_SLAVE_DEFINED" \notin ErrorCodes(out')
           /\ \A R \in CorruptRoots :
                 IsPrefix(R, req'.P)
                    => /\ ~loc'.ok /\ loc'.created
                       /\ mRepository'.id # mRepository.id
                       /\ mRepository'.objectName = DirString(R)
                       /\ out' = <<SigErr("ERR_SLAVE_DEFINED")>>

C16_UsableAfterFailedOpen == [][C16_NextRequestStep]_vars

\* /a/ has been opened while the Repository that failed is still allocated.
C16_Witness ==
    /\ loc.used /\ loc.ok /\ loc.created
    /\ mRepository.objectName = <<"/", "a", "/">>
    /\ Cardinality(allocated) = 2
    /\ req.op = "GetFull" /\ Finished(out)

\* ------------------------------------------------------------------------
\* Paths around the archive root /B/b/: inside it, with a doubled slash
\* (an empty component), and in the sibling directory /B/bc/.
\* ------------------------------------------------------------------------
PrefixPaths ==
    { <<<<"B">>, <<"b">>>>, <<<<"B">>, <<"b">>, <<"f">>>>,
      <<<<"B">>, <<"b">>, <<"d">>, <<"g">>>>,
      <<<<"B">>, <<>>, <<"b">>, <<"f">>>>,
      <<<<"B">>, <<"b">>, <<>>, <<"f">>>>,
      <<<<"B">>, <<"b", "c">>, <<"f">>>>,
      <<<<"a">>, <<"f">>>> }

PrefixForms == {1} \X BOOLEAN

NextPrefix ==
    \/ \E P \in PrefixPaths, form \in PrefixForms : MimeTypeOf(P, form)
    \/ \E P \in PrefixPaths, form \in PrefixForms, v \in 0..1 :
          Stat(P, form, [kind |-> "num", val |-> v])

SpecPrefix == Init /\ [][NextPrefix]_vars

NonEmptyComponent(c) == c # <<>>

\* the component sequence of the address, doubled slashes dropped
AddressComponents(P) == SelectSeq(P, NonEmptyComponent)

RootComponents(repo) == SplitSkipEmpty(repo.objectName)

\* C17: the root path of the held Repository ends with a slash; a request
\* made while a valid Repository is held reuses it exactly when the
\* component sequence of its path extends that of the root, and a path the
\* Repository answers for has the root path as a prefix.
C17_ReuseStep ==
    (pc = "idle" /\ loc'.used)
        => /\ mRepository' # NoRepo => Last(mRepository'.objectName) = Slash
           /\ loc'.ok => IsPrefix(RootComponents(mRepository'),
                                  AddressComponents(req'.P))
           /\ (mRepository # NoRepo /\ mRepository.valid)
                 => ((mRepository' = mRepository)
                        <=> IsPrefix(RootComponents(mRepository),
                                     AddressComponents(req'.P)))

C17_ReuseExactlyUnderRoot == [][C17_ReuseStep]_vars

\* a step of a GetFull, Stat, ListDirectory or MimeTypeOf request
OtherRequestStep ==
    \/ pc = "get"
    \/ pc = "idle" /\ req'.op \in {"GetFull", "Stat", "ListDirectory", "MimeTypeOf"}

\* C18: while a file is open, no step of a GetFull, Stat, ListDirectory or
\* MimeTypeOf request changes the open file slot or the offset of the open
\* file, also when GetFull streams that same file.
C18_OffsetStep ==
    (mOpenFile # NoFile /\ ~Dangling /\ OtherRequestStep)
        => /\ mOpenFile' = mOpenFile
           /\ filePos'[mOpenFile.node] = filePos[mOpenFile.node]

C18_OffsetChangedOnlyByHandleRequests == [][C18_OffsetStep]_vars

\* ------------------------------------------------------------------------
\* A store that may also return an empty chunk with code 0 before the end
\* of the data.  The response keeps one copy of a repeated empty turn.
\* ------------------------------------------------------------------------
EndsWith(o, tail) ==
    Len(o) >= Len(tail) /\ SubSeq(o, Len(o) - Len(tail) + 1, Len(o)) = tail

AppendOnce(o, tail) == IF EndsWith(o, tail) THEN o ELSE o \o tail

\* lines 132-136 with lResultArray empty: data, then the same processed size
GetEmptyChunk ==
    /\ pc = "get"
    /\ filePos[lFile] < FileSize(lFile)
    /\ out' = AppendOnce(out, <<SigData(filePos[lFile], 0),
                                SigN("processedSize", lProcessedSize)>>)
    /\ emptyTurns' = 1 - emptyTurns
    /\ UNCHANGED <<sessionVars, loopVars, cacheVars, pc, req, loc, seekLog,
                   platform>>

\* lines 221-224 with lResultArray empty: pSize is left as it is
ReadEmptyChunk ==
    /\ pc = "read"
    /\ pSize > 0
    /\ ~Dangling
    /\ filePos[mOpenFile.node] < FileSize(mOpenFile.node)
    /\ out' = AppendOnce(out, <<SigData(filePos[mOpenFile.node], 0)>>)
    /\ emptyTurns' = 1 - emptyTurns
    /\ UNCHANGED <<sessionVars, loopVars, cacheVars, pc, req, loc, seekLog,
                   platform>>

LivePaths == { <<<<"a">>, <<"f">>>>, <<<<"a">>, <<"e">>>> }

NextLive ==
    \/ Requests(LivePaths, OneSlash, {NoResume}, {[kind |-> "num", val |-> 0]},
                0..1, {0})
    \/ GetEmptyChunk
    \/ ReadEmptyChunk

\* a turn of each loop, whatever the store returns
GetTurn == GetStep \/ GetEmptyChunk
ReadTurn == ReadStep \/ ReadEmptyChunk

\* The worker keeps running: a loop that can make a turn makes one.
SpecLive ==
    Init /\ [][NextLive]_vars /\ WF_vars(GetTurn) /\ WF_vars(ReadTurn)

Terminated ==
    /\ pc = "idle"
    /\ out # <<>>
    /\ Last(out).sig \in {"finished", "error"}

\* C19: a GetFull or ReadOpen that has entered its streaming loop ends with
\* its terminal signal, whatever the store returns on each read, empty
\* chunks with code 0 included.
C19_StreamingTerminates == (pc \in {"get", "read"}) ~> Terminated

\* ------------------------------------------------------------------------
\* ReadOpen with budgets around the limits of int and of the size type.
\* ------------------------------------------------------------------------
BudgetSizes ==
    {1, 2 ^ (IntBits - 1) - 1, 2 ^ (IntBits - 1), 2 ^ IntBits, 2 ^ IntBits + 1,
     SizeModulus - 1}

NextBudget ==
    Requests({<<<<"a">>, <<"f">>>>}, OneSlash, {NoResume},
             {[kind |-> "num", val |-> 0]}, BudgetSizes, {0, 1})

SpecBudget == Init /\ [][NextBudget]_vars

\* a turn of the loop of read() that called the store
C20_BoundStep ==
    (pc = "read" /\ seekLog' # seekLog)
        => /\ Last(seekLog').off = pSize
           /\ Last(seekLog').off > 0
           /\ pc' = "read" => (pSize' <= pSize /\ pSize' = pSize - Last(out').b)

\* what a ReadOpen has emitted when it ends without a store failure
C20_Total ==
    (pc = "idle" /\ req.op = "ReadOpen" /\ mOpenFile # NoFile /\ ~Dangling
     /\ ~StoreReadFailed(out))
        => /\ Len(DataBytes(out)) <= req.n
           /\ \/ Len(DataBytes(out)) = req.n
              \/ filePos[mOpenFile.node] = FileSize(mOpenFile.node)

\* C20: for every budget of the size type, each call to the store is given
\* the remaining budget, which is positive, as its bound; the budget only
\* goes down, by the length of each chunk; and the bytes emitted are the
\* budget or what the file has left, whichever is less.
C20_BoundIsRemainingBudget == []C20_Total /\ [][C20_BoundStep]_vars

====
